---- MODULE Spec2Model ----
(***************************************************************************)
(* Bulk form-submission engine of the Eloqua admin toolbox                 *)
(* (src/src/tools/FormBulkSubmitTool.ts, src/src/shared/validation.ts and  *)
(* the ToolExecutor of the tool framework).                                *)
(*                                                                         *)
(* JavaScript strings that the code inspects character by character (CSV   *)
(* text, cells, header names, site id, URLs) are sequences of one-         *)
(* character strings.  Fixed messages are ordinary TLA+ strings.           *)
(***************************************************************************)
EXTENDS Integers, Sequences, FiniteSets, TLC

(***************************************************************************)
(* Bounds of the model.                                                    *)
(***************************************************************************)
\* longest CSV text that is enumerated exhaustively over Alphabet
MaxLen == 4
\* largest number of data rows of the generated multi-row CSV texts
MaxRows == 4
\* largest maxConcurrentRequests option that is explored
MaxConc == 2
\* longest outcome list handed to calculateSummary on its own
MaxOutcomes == 80
\* largest number of data rows of the jobs submitted with unchecked options
MaxWideRows == 2
\* largest number of ids handed to the bulk deletion tool
MaxIds == 3
\* largest batchSize option of the bulk deletion tool that is explored
MaxBatchSize == 3
\* longest dependency list of a 412 answer
MaxDeps == 2
\* largest number of executeTool calls made on one useTool hook
MaxCalls == 3

(***************************************************************************)
(* JavaScript string primitives.                                           *)
(***************************************************************************)
Min(a, b) == IF a < b THEN a ELSE b

Max(a, b) == IF a < b THEN b ELSE a

\* characters String.prototype.trim() removes
IsWhitespace(c) == c \in {" ", "\n", "\t", "\r"}

RECURSIVE TrimStart(_)
TrimStart(s) ==
  IF s = <<>> THEN <<>>
  ELSE IF IsWhitespace(Head(s)) THEN TrimStart(Tail(s)) ELSE s

RECURSIVE TrimEnd(_)
TrimEnd(s) ==
  IF s = <<>> THEN <<>>
  ELSE IF IsWhitespace(s[Len(s)]) THEN TrimEnd(SubSeq(s, 1, Len(s) - 1)) ELSE s

\* String.prototype.trim
Trim(s) == TrimEnd(TrimStart(s))

\* String.prototype.startsWith for a one-character needle
StartsWith(s, c) == Len(s) > 0 /\ s[1] = c

\* String.prototype.endsWith for a one-character needle
EndsWith(s, c) == Len(s) > 0 /\ s[Len(s)] = c

\* String.prototype.includes for a one-character needle
Includes(s, c) == \E k \in 1..Len(s) : s[k] = c

\* String.prototype.split with a one-character separator: always at least
\* one piece, "" splits into [""]
RECURSIVE SplitAcc(_, _, _, _)
SplitAcc(s, sep, cur, acc) ==
  IF s = <<>> THEN Append(acc, cur)
  ELSE IF Head(s) = sep THEN SplitAcc(Tail(s), sep, <<>>, Append(acc, cur))
  ELSE SplitAcc(Tail(s), sep, Append(cur, Head(s)), acc)

Split(s, sep) == SplitAcc(s, sep, <<>>, <<>>)

\* Array.prototype.join with a separator string
RECURSIVE Join(_, _)
Join(parts, sep) ==
  IF parts = <<>> THEN <<>>
  ELSE IF Len(parts) = 1 THEN parts[1]
  ELSE parts[1] \o sep \o Join(Tail(parts), sep)

\* String.prototype.replace(/c/g, repl) for a one-character pattern
RECURSIVE ReplaceAll(_, _, _)
ReplaceAll(s, c, repl) ==
  IF s = <<>> THEN <<>>
  ELSE (IF Head(s) = c THEN repl ELSE <<Head(s)>>) \o ReplaceAll(Tail(s), c, repl)

\* lower-case folding of the letters the script pattern names (flag i)
Lower(c) ==
  CASE c = "S" -> "s" [] c = "C" -> "c" [] c = "R" -> "r" [] c = "I" -> "i"
    [] c = "P" -> "p" [] c = "T" -> "t" [] OTHER -> c

\* does the literal pat occur in s at position p (case-insensitively)
MatchAt(s, p, pat) ==
  /\ p + Len(pat) - 1 <= Len(s)
  /\ \A k \in 1..Len(pat) : Lower(s[p + k - 1]) = pat[k]

\* least position q >= p with s[q] = c, 0 when there is none
RECURSIVE IndexFrom(_, _, _)
IndexFrom(s, p, c) ==
  IF p > Len(s) THEN 0
  ELSE IF s[p] = c THEN p ELSE IndexFrom(s, p + 1, c)

(***************************************************************************)
(* InputValidator.sanitizeHtml (validation.ts)                             *)
(***************************************************************************)
ScriptOpen == <<"<", "s", "c", "r", "i", "p", "t">>

ScriptClose == <<"<", "/", "s", "c", "r", "i", "p", "t", ">">>

\* least r >= p where ScriptClose occurs, the lazy .*? not crossing a line
\* terminator; 0 when there is none
RECURSIVE ScriptCloseFrom(_, _)
ScriptCloseFrom(s, p) ==
  IF p > Len(s) THEN 0
  ELSE IF MatchAt(s, p, ScriptClose) THEN p
  ELSE IF s[p] \in {"\n", "\r"} THEN 0
  ELSE ScriptCloseFrom(s, p + 1)

\* end of the match whose closing tag starts at r (0: no closing tag)
ScriptEndAt(r) == IF r = 0 THEN 0 ELSE r + Len(ScriptClose) - 1

\* end of the match whose opening tag ends at q (0: the tag is not closed)
ScriptEndAfterOpen(s, q) ==
  IF q = 0 THEN 0 ELSE ScriptEndAt(ScriptCloseFrom(s, q + 1))

\* end position of a match of SCRIPT_REGEX starting at p, 0 when none
ScriptMatchEnd(s, p) ==
  IF ~MatchAt(s, p, ScriptOpen) THEN 0
  ELSE ScriptEndAfterOpen(s, IndexFrom(s, p + Len(ScriptOpen), ">"))

\* input.replace(SCRIPT_REGEX, '') from position p on; e is the end of the
\* match at p
RECURSIVE RemoveScripts(_, _)
RECURSIVE RemoveScriptsStep(_, _, _)
RemoveScriptsStep(s, p, e) ==
  IF e # 0 THEN RemoveScripts(s, e + 1)
  ELSE <<s[p]>> \o RemoveScripts(s, p + 1)

RemoveScripts(s, p) ==
  IF p > Len(s) THEN <<>> ELSE RemoveScriptsStep(s, p, ScriptMatchEnd(s, p))

\* input.replace(HTML_TAGS_REGEX, '')
RECURSIVE RemoveTags(_, _)
RemoveTags(s, p) ==
  IF p > Len(s) THEN <<>>
  ELSE IF s[p] = "<" /\ IndexFrom(s, p + 1, ">") # 0
       THEN RemoveTags(s, IndexFrom(s, p + 1, ">") + 1)
       ELSE <<s[p]>> \o RemoveTags(s, p + 1)

\* the six entity replacements, in the order of the replace chain
EscapeHtml(s) ==
  ReplaceAll(
    ReplaceAll(
      ReplaceAll(
        ReplaceAll(
          ReplaceAll(
            ReplaceAll(s, "&", <<"&", "a", "m", "p", ";">>),
            "<", <<"&", "l", "t", ";">>),
          ">", <<"&", "g", "t", ";">>),
        "\"", <<"&", "q", "u", "o", "t", ";">>),
      "'", <<"&", "#", "x", "2", "7", ";">>),
    "/", <<"&", "#", "x", "2", "F", ";">>)

sanitizeHtml(input) ==
  IF input = <<>> THEN <<>>
  ELSE EscapeHtml(RemoveTags(RemoveScripts(input, 1), 1))

(***************************************************************************)
(* InputValidator.validateCsvData (validation.ts)                          *)
(***************************************************************************)
\* the four prefixes of a spreadsheet formula
StartsDangerous(cell) ==
  StartsWith(cell, "=") \/ StartsWith(cell, "@") \/ StartsWith(cell, "+")
    \/ StartsWith(cell, "-")

\* s.replace(/^"/, '')
StripLeadingQuote(s) == IF StartsWith(s, "\"") THEN Tail(s) ELSE s

\* s.replace(/"$/, '')
StripTrailingQuote(s) ==
  IF EndsWith(s, "\"") THEN SubSeq(s, 1, Len(s) - 1) ELSE s

\* cell.trim().replace(/^"/, '').replace(/"$/, '') starts a formula
IsDangerousCell(cell) ==
  StartsDangerous(StripTrailingQuote(StripLeadingQuote(Trim(cell))))

AnyDangerous(cells) == \E c \in 1..Len(cells) : IsDangerousCell(cells[c])

dangerousCells(lines) ==
  \E l \in 1..Len(lines) : AnyDangerous(Split(lines[l], ","))

\* remove quotes if they wrap the entire cell; slice(1, -1) of a
\* one-character string is empty
UnwrapCell(t) ==
  IF StartsWith(t, "\"") /\ EndsWith(t, "\"")
  THEN SubSeq(t, 2, Len(t) - 1) ELSE t

\* prefix a formula cell with a single quote
NeutralizeCell(c) == IF StartsDangerous(c) THEN <<"'">> \o c ELSE c

\* re-wrap in quotes if needed
RewrapCell(c) ==
  IF Includes(c, ",") \/ Includes(c, "\"") \/ Includes(c, "\n")
  THEN <<"\"">> \o ReplaceAll(c, "\"", <<"\"", "\"">>) \o <<"\"">>
  ELSE c

\* the body of sanitizedCells' map callback
SanitizeCell(cell) ==
  RewrapCell(sanitizeHtml(NeutralizeCell(UnwrapCell(Trim(cell)))))

SanitizeCells(cells) ==
  Join([c \in 1..Len(cells) |-> SanitizeCell(cells[c])], <<",">>)

SanitizeLine(line) == SanitizeCells(Split(line, ","))

\* maximum accepted size of the trimmed CSV text (10MB)
MaxCsvSize == 10 * 1024 * 1024

\* the errors pushed after the two early returns
CsvErrors(trimmedData, lines) ==
  (IF Len(trimmedData) > MaxCsvSize
   THEN <<"CSV data is too large">> ELSE <<>>)
  \o (IF Len(lines) < 2
      THEN <<"CSV must contain at least a header row and one data row">>
      ELSE <<>>)
  \o (IF dangerousCells(lines)
      THEN <<"CSV contains potentially dangerous formulas">> ELSE <<>>)

\* sanitizedLines.join('\n')
SanitizeLines(lines) ==
  Join([l \in 1..Len(lines) |-> SanitizeLine(lines[l])], <<"\n">>)

CsvValidation(errors, sanitizedValue) ==
  [isValid |-> errors = <<>>, errors |-> errors,
   sanitizedValue |-> sanitizedValue]

ValidateLines(trimmedData, lines) ==
  CsvValidation(CsvErrors(trimmedData, lines), SanitizeLines(lines))

ValidateTrimmed(trimmedData) ==
  IF Len(trimmedData) = 0
  THEN [isValid |-> FALSE, errors |-> <<"CSV data cannot be empty">>]
  ELSE ValidateLines(trimmedData, Split(trimmedData, "\n"))

\* the ValidationResult; sanitizedValue is absent on the two early returns
validateCsvData(csvData) ==
  IF csvData = <<>>
  THEN [isValid |-> FALSE, errors |-> <<"CSV data is required">>]
  ELSE ValidateTrimmed(Trim(csvData))

(***************************************************************************)
(* FormBulkSubmitTool: CSV parsing                                         *)
(***************************************************************************)
\* the character loop of parseCsvLine from position i on
RECURSIVE ParseLineFrom(_, _, _, _, _)
ParseLineFrom(line, i, current, inQuotes, result) ==
  IF i > Len(line) THEN Append(result, current)
  ELSE IF line[i] = "\""
       THEN IF inQuotes /\ i + 1 <= Len(line) /\ line[i + 1] = "\""
            THEN ParseLineFrom(line, i + 2, Append(current, "\""), inQuotes, result)
            ELSE ParseLineFrom(line, i + 1, current, ~inQuotes, result)
  ELSE IF line[i] = "," /\ ~inQuotes
       THEN ParseLineFrom(line, i + 1, <<>>, inQuotes, Append(result, current))
  ELSE ParseLineFrom(line, i + 1, Append(current, line[i]), inQuotes, result)

parseCsvLine(line) == ParseLineFrom(line, 1, <<>>, FALSE, <<>>)

\* A Record<string, string> is the sequence of its <<key, value>> entries in
\* insertion order; the keys are pairwise different.
HasKey(obj, k) == \E e \in 1..Len(obj) : obj[e][1] = k

\* obj[k] = v
SetProp(obj, k, v) ==
  IF HasKey(obj, k)
  THEN [e \in 1..Len(obj) |-> IF obj[e][1] = k THEN <<k, v>> ELSE obj[e]]
  ELSE Append(obj, <<k, v>>)

\* values[j] || '' for the 1-based column j
CellValue(values, j) == IF j <= Len(values) THEN values[j] ELSE <<>>

\* the row after column j, whose trimmed cell text is trimmed
SetCell(row, header, trimmed) ==
  IF trimmed # <<>> THEN SetProp(row, header, sanitizeHtml(trimmed)) ELSE row

\* the inner loop over the header columns j..headers.length of one data line
RECURSIVE BuildRow(_, _, _, _)
BuildRow(headers, values, j, row) ==
  IF j > Len(headers) THEN row
  ELSE BuildRow(headers, values, j + 1,
                SetCell(row, headers[j], Trim(CellValue(values, j))))

\* mutation of KeepRow: rows without any value are kept as well
KeepRowAlways(row) == TRUE

\* only include rows with at least one non-empty value
KeepRow(row) == Len(row) > 0

PushRow(rows, row) == IF KeepRow(row) THEN Append(rows, row) ELSE rows

\* rows after the data line whose trimmed text is lineData
AddLine(headers, rows, lineData) ==
  IF lineData = <<>> THEN rows
  ELSE PushRow(rows, BuildRow(headers, parseCsvLine(lineData), 1, <<>>))

\* the outer loop over the data lines i..lines.length
RECURSIVE BuildRows(_, _, _, _)
BuildRows(headers, lines, i, rows) ==
  IF i > Len(lines) THEN rows
  ELSE BuildRows(headers, lines, i + 1, AddLine(headers, rows, Trim(lines[i])))

Thrown(error) == [ok |-> FALSE, error |-> error]

ParseWithHeaders(headers, lines) ==
  IF Len(headers) = 0 THEN Thrown(<<"CSV must have column headers">>)
  ELSE [ok |-> TRUE, rows |-> BuildRows(headers, lines, 2, <<>>)]

ParseLines(lines) ==
  IF Len(lines) < 2
  THEN Thrown(<<"CSV must have at least a header row and one data row">>)
  ELSE ParseWithHeaders(parseCsvLine(lines[1]), lines)

ParseValidated(csvValidation) ==
  IF ~csvValidation.isValid
  THEN Thrown(<<"CSV validation failed: ">> \o csvValidation.errors)
  ELSE ParseLines(Split(Trim(csvValidation.sanitizedValue), "\n"))

\* parseCsvData: [ok |-> TRUE, rows] or [ok |-> FALSE, error] for a throw
parseCsvData(csvData) ==
  IF Trim(csvData) = <<>> THEN Thrown(<<"CSV data is empty">>)
  ELSE ParseValidated(validateCsvData(csvData))

(***************************************************************************)
(* FormBulkSubmitTool: request construction                                *)
(***************************************************************************)
\* characters application/x-www-form-urlencoded serialisation leaves alone
Unreserved ==
  {"a", "b", "c", "d", "e", "f", "g", "h", "i", "j", "k", "l", "m", "n", "o",
   "p", "q", "r", "s", "t", "u", "v", "w", "x", "y", "z",
   "A", "B", "C", "D", "E", "F", "G", "H", "I", "J", "K", "L", "M", "N", "O",
   "P", "Q", "R", "S", "T", "U", "V", "W", "X", "Y", "Z",
   "0", "1", "2", "3", "4", "5", "6", "7", "8", "9", "*", "-", ".", "_"}

\* one character as URLSearchParams.toString() writes it
FormEncodeChar(c) ==
  CASE c \in Unreserved -> <<c>>
    [] c = " "  -> <<"+">>
    [] c = "\t" -> <<"%", "0", "9">>
    [] c = "\n" -> <<"%", "0", "A">>
    [] c = "\r" -> <<"%", "0", "D">>
    [] c = "\"" -> <<"%", "2", "2">>
    [] c = "#"  -> <<"%", "2", "3">>
    [] c = "&"  -> <<"%", "2", "6">>
    [] c = "'"  -> <<"%", "2", "7">>
    [] c = "("  -> <<"%", "2", "8">>
    [] c = ")"  -> <<"%", "2", "9">>
    [] c = "+"  -> <<"%", "2", "B">>
    [] c = ","  -> <<"%", "2", "C">>
    [] c = "/"  -> <<"%", "2", "F">>
    [] c = ":"  -> <<"%", "3", "A">>
    [] c = ";"  -> <<"%", "3", "B">>
    [] c = "<"  -> <<"%", "3", "C">>
    [] c = "="  -> <<"%", "3", "D">>
    [] c = ">"  -> <<"%", "3", "E">>
    [] c = "@"  -> <<"%", "4", "0">>

RECURSIVE FormEncode(_)
FormEncode(s) ==
  IF s = <<>> THEN <<>> ELSE FormEncodeChar(Head(s)) \o FormEncode(Tail(s))

\* URLSearchParams.toString() of a list of <<name, value>> pairs
ParamsToString(params) ==
  Join([e \in 1..Len(params) |->
          FormEncode(params[e][1]) \o <<"=">> \o FormEncode(params[e][2])],
       <<"&">>)

\* ELOQUA_BASE_URL before and after the {siteId} placeholder
BaseUrlPrefix == <<"h", "t", "t", "p", "s", ":", "/", "/", "s">>

BaseUrlSuffix == <<".", "t", ".", "e", "l", "o", "q", "u", "a", ".", "c", "o", "m", "/", "e", "/", "f", "2">>

ElqFormNameKey == <<"e", "l", "q", "F", "o", "r", "m", "N", "a", "m", "e">>

ElqSiteIDKey == <<"e", "l", "q", "S", "i", "t", "e", "I", "D">>

buildEloquaUrl(siteId, elqFormName, csvData, rowNumber) ==
  BaseUrlPrefix \o siteId \o BaseUrlSuffix \o <<"?">>
    \o ParamsToString(
         <<<<ElqFormNameKey, elqFormName>>, <<ElqSiteIDKey, siteId>>>>
           \o csvData)

\* the request body of processRow: new URLSearchParams(rowData)
RequestBody(rowData) == ParamsToString(rowData)

(***************************************************************************)
(* Inputs of a job.                                                        *)
(***************************************************************************)
\* characters of the exhaustively enumerated CSV texts
Alphabet == {"a", ",", "\n", " ", "=", "\""}

\* every text over Alphabet of length at most n
Strings(n) == UNION {[1..k -> Alphabet] : k \in 0..n}

DigitChar == <<"1", "2", "3", "4", "5", "6", "7", "8", "9">>

\* header a,b followed by the k data lines 1,x 2,x ... k,x
RECURSIVE DataLines(_)
DataLines(k) ==
  IF k = 0 THEN <<>>
  ELSE DataLines(k - 1) \o <<"\n", DigitChar[k], ",", "x">>

RowsCsv(k) == <<"a", ",", "b">> \o DataLines(k)

\* a,b / 1,2 / 3,4
ScenarioA == <<"a", ",", "b", "\n", "1", ",", "2", "\n", "3", ",", "4">>

\* a / =SUM(A1:A2)
ScenarioB ==
  <<"a", "\n", "=", "S", "U", "M", "(", "A", "1", ":", "A", "2", ")">>

\* a / x / ,b : the last line is populated only past the header columns
ExtraColumnCsv == <<"a", "\n", "x", "\n", ",", "b">>

\* a,b / 1,2 / (blank) / " , " / ,4 : a blank and an all-empty data line
BlankLinesCsv ==
  <<"a", ",", "b", "\n", "1", ",", "2", "\n", "\n", " ", ",", " ", "\n",
    ",", "4">>

\* ,, / x,y : a header line without any header name
NoHeaderNameCsv == <<",", ",", "\n", "x", ",", "y">>

\* a,b,c / J,"S, J",x : a quoted cell that holds a comma
QuotedCommaCsv ==
  <<"a", ",", "b", ",", "c", "\n",
    "J", ",", "\"", "S", ",", " ", "J", "\"", ",", "x">>

\* a / x&y : a cell that holds an ampersand
AmpersandCsv == <<"a", "\n", "x", "&", "y">>

CsvInputs ==
  Strings(MaxLen) \cup {RowsCsv(k) : k \in 1..MaxRows}
    \cup {ScenarioA, ScenarioB, ExtraColumnCsv, BlankLinesCsv, NoHeaderNameCsv,
          QuotedCommaCsv, AmpersandCsv}

Operations == {"submit"}

SiteIds == {<<"1", "0", "0">>}

FormNames == {<<"X">>}

RequestTimeouts == {10}

Delays == {0, 100}

\* the parameter objects handed to ToolExecutor.execute
Parameters ==
  [operation : Operations, siteId : SiteIds, elqFormName : FormNames,
   csvData : CsvInputs, requestTimeout : RequestTimeouts,
   delayBetweenRequests : Delays, validateOnly : BOOLEAN,
   maxConcurrentRequests : 1..MaxConc]

\* Parameter objects as any caller of ToolExecutor.execute may pass them
\* (its parameter is typed any): operation values outside the enum, site
\* ids that are not numeric, missing names, options outside the schema's
\* declared ranges.
WideOperations == {"submit", "get-examples", "get-usage-guide", "other", ""}

WideSiteIds == {<<"1", "0", "0">>, <<"a", "b", "c">>, <<>>}

WideFormNames == {<<"X">>, <<>>}

WideCsvInputs == {RowsCsv(k) : k \in 1..MaxWideRows} \cup {<<>>}

\* <<requestTimeout, delayBetweenRequests, maxConcurrentRequests>>: one
\* option at a time leaves the defaults' neighbourhood
WideOptions ==
  {<<t, 0, 1>> : t \in {0, 1, 60, 61}}
    \cup {<<10, d, 1>> : d \in {-1, 0, 5000, 5001}}
    \cup {<<10, 0, m>> : m \in {-1, 0, 1, 20, 21}}

WideParameters ==
  {[operation |-> o, siteId |-> s, elqFormName |-> f, csvData |-> c,
    requestTimeout |-> opt[1], delayBetweenRequests |-> opt[2],
    validateOnly |-> v, maxConcurrentRequests |-> opt[3]] :
     o \in WideOperations, s \in WideSiteIds, f \in WideFormNames,
     c \in WideCsvInputs, v \in BOOLEAN, opt \in WideOptions}

\* HTTP status codes the form endpoint answers with
StatusCodes == {200, 500}

(***************************************************************************)
(* FormBulkSubmitTool: parameter validation                                *)
(***************************************************************************)
\* ParameterValidator.isRequired on a string
isRequired(value) == value # <<>>

IsDigit(c) == c \in {"0", "1", "2", "3", "4", "5", "6", "7", "8", "9"}

\* /^\d+$/.test(siteId)
validateSiteId(siteId) ==
  Len(siteId) > 0 /\ \A k \in 1..Len(siteId) : IsDigit(siteId[k])

\* parameters.operation || 'submit'
OperationOrDefault(operation) == IF operation = "" THEN "submit" ELSE operation

validateParameters(parameters) ==
  IF OperationOrDefault(parameters.operation) = "submit"
  THEN /\ isRequired(parameters.siteId) /\ validateSiteId(parameters.siteId)
       /\ isRequired(parameters.elqFormName)
       /\ parameters.csvData # <<>>
       /\ ~(parameters.requestTimeout < 1 \/ parameters.requestTimeout > 60)
  ELSE TRUE

(***************************************************************************)
(* FormBulkSubmitTool: row outcomes and summary                            *)
(* Wall-clock measurements (processingTime, responseSize, timestamp) are   *)
(* environment data no decision of the engine depends on; they are left    *)
(* out of the records.                                                     *)
(***************************************************************************)
\* Object.keys(rowData).length
parametersCount(rowData) == Len(rowData)

\* mutation of SuccessOutcome: success follows response.ok
SuccessOutcomeByStatus(rowData, siteId, elqFormName, rowNumber, status) ==
  [rowNumber |-> rowNumber,
   success |-> status < 400,
   statusCode |-> status,
   url |-> buildEloquaUrl(siteId, elqFormName, rowData, rowNumber),
   parametersCount |-> parametersCount(rowData),
   data |-> rowData]

\* the ProcessedRow returned after fetch and response.text() completed
SuccessOutcome(rowData, siteId, elqFormName, rowNumber, status) ==
  [rowNumber |-> rowNumber,
   success |-> TRUE,
   statusCode |-> status,
   url |-> buildEloquaUrl(siteId, elqFormName, rowData, rowNumber),
   parametersCount |-> parametersCount(rowData),
   data |-> rowData]

\* mutation of ErrorMessage: an abort is reported like any network error
ErrorMessageNetworkOnly(errorName, message) == <<"Network error: ", message>>

\* the error message chosen in the catch block of processRow
ErrorMessage(errorName, message) ==
  IF errorName = "AbortError" THEN <<"Request timeout">>
  ELSE <<"Network error: ", message>>

\* mutation of FailureOutcome: a status code is reported for a failed row
FailureOutcomeWithStatus(rowData, rowNumber, errorName, message) ==
  [rowNumber |-> rowNumber,
   success |-> FALSE,
   statusCode |-> 0,
   error |-> ErrorMessage(errorName, message),
   parametersCount |-> parametersCount(rowData),
   data |-> rowData]

\* the ProcessedRow returned from the catch block
FailureOutcome(rowData, rowNumber, errorName, message) ==
  [rowNumber |-> rowNumber,
   success |-> FALSE,
   error |-> ErrorMessage(errorName, message),
   parametersCount |-> parametersCount(rowData),
   data |-> rowData]

\* the ProcessedRow processBatch writes for a rejected promise
RejectedOutcome(entry, reason) ==
  [rowNumber |-> entry.index + 1,
   success |-> FALSE,
   parametersCount |-> parametersCount(entry.row),
   error |-> <<"Promise rejected: ", reason>>]

\* A JavaScript array is a function on the (1-based) positions written so far
ArrLength(arr) ==
  IF DOMAIN arr = {} THEN 0
  ELSE CHOOSE m \in DOMAIN arr : \A k \in DOMAIN arr : k <= m

\* arr[index] = v for a 0-based index
ArrSet(arr, index, v) ==
  [k \in DOMAIN arr \cup {index + 1} |-> IF k = index + 1 THEN v ELSE arr[k]]

\* Math.round(num / den) for num >= 0 and den > 0
RoundDiv(num, den) == (2 * num + den) \div (2 * den)

(* JavaScript numbers are IEEE 754 binary64.  A positive number is kept as   *)
(* [m, e]: m its significand bits, most significant first with m[1] = 1,   *)
(* and e the binary exponent of m[1]; every operation rounds its exact      *)
(* result to Precision bits, to nearest, ties to even.                      *)
Precision == 53

\* long arithmetic is done on limbs of LimbBits bits, most significant first
LimbBits == 13
LimbBase == 2^LimbBits
\* limbs of a quotient: enough for Precision bits, a rounding bit and the
\* zero bits in front of the first set one
QuotientLimbs == 6

\* the one element of a one-element set; {F(x) : x \in {e}} evaluates e once
\* before F uses it
Only(S) == CHOOSE x \in S : TRUE

\* the bits of a limb sequence
LimbsToBits(limbs) ==
  [q \in 1..(Len(limbs) * LimbBits) |->
     (limbs[((q - 1) \div LimbBits) + 1]
        \div 2^(LimbBits - 1 - ((q - 1) % LimbBits))) % 2]

\* the number written by the first k bits
RECURSIVE BitsValue(_, _)
BitsValue(bits, k) ==
  IF k = 0 THEN 0 ELSE 2 * BitsValue(bits, k - 1) + bits[k]

\* zero bits put in front up to a whole number of limbs
FrontPadded(bits) ==
  [q \in 1..((LimbBits - (Len(bits) % LimbBits)) % LimbBits) |-> 0] \o bits

LimbsOfPadded(padded) ==
  [j \in 1..(Len(padded) \div LimbBits) |->
     BitsValue(SubSeq(padded, (j - 1) * LimbBits + 1, j * LimbBits), LimbBits)]

\* the limbs of a bit sequence
BitsToLimbs(bits) == Only({LimbsOfPadded(padded) : padded \in {FrontPadded(bits)}})

\* the bits from the first set one on
Significant(bits) ==
  SubSeq(bits,
         CHOOSE z \in 1..Len(bits) :
           bits[z] = 1 /\ \A q \in 1..(z - 1) : bits[q] = 0,
         Len(bits))

\* a bit sequence plus one
IncBits(b) ==
  IF \A q \in 1..Len(b) : b[q] = 1
  THEN <<1>> \o [q \in 1..Len(b) |-> 0]
  ELSE [q \in 1..Len(b) |->
          IF \E z \in (q + 1)..Len(b) : b[z] = 0 THEN b[q]
          ELSE 1 - b[q]]

\* some bit from position k on is set
AnyBitFrom(bits, k) == \E q \in k..Len(bits) : bits[q] = 1

\* the exact bits are rounded up: the first dropped bit is set and either a
\* later one is (sticky tells of bits not written out) or the last kept is
RoundsUp(bits, sticky) ==
  /\ Len(bits) > Precision
  /\ bits[Precision + 1] = 1
  /\ (sticky \/ AnyBitFrom(bits, Precision + 2) \/ bits[Precision] = 1)

\* the significand after an increment, which may have carried into a new bit
Renormalized(bits, e) ==
  IF Len(bits) > Precision
  THEN [m |-> SubSeq(bits, 1, Precision), e |-> e + 1]
  ELSE [m |-> bits, e |-> e]

\* zero bits appended up to Precision bits
PadBits(bits) == bits \o [k \in 1..(Precision - Len(bits)) |-> 0]

\* the number nearest to the exact value with bits `bits`, bits[1] = 1 of
\* exponent e
RoundToPrecision(bits, e, sticky) ==
  IF RoundsUp(bits, sticky)
  THEN Only({Renormalized(inc, e) :
               inc \in {IncBits(SubSeq(bits, 1, Precision))}})
  ELSE [m |-> SubSeq(PadBits(bits), 1, Precision), e |-> e]

\* long division: the next k limbs of r / n for r < n
RECURSIVE DivLimbs(_, _, _)
DivLimbs(r, n, k) ==
  IF k = 0 THEN <<>>
  ELSE <<(r * LimbBase) \div n>> \o DivLimbs((r * LimbBase) % n, n, k - 1)

\* what is left of r after k limbs
RECURSIVE DivRem(_, _, _)
DivRem(r, n, k) ==
  IF k = 0 THEN r ELSE (DivRem(r, n, k - 1) * LimbBase) % n

\* the bits of s / n, the first of exponent 0
QuotientBits(s, n) ==
  <<s \div n>> \o LimbsToBits(DivLimbs(s % n, n, QuotientLimbs))

\* the quotient rounded: `bits` are its bits from the first set one on
RoundQuotient(bits, s, n) ==
  RoundToPrecision(bits, Len(bits) - (1 + QuotientLimbs * LimbBits),
                   DivRem(s % n, n, QuotientLimbs) # 0)

\* s / n for integers 0 < s <= n
FloatDiv(s, n) ==
  Only({RoundQuotient(bits, s, n) : bits \in {Significant(QuotientBits(s, n))}})

\* limbs of limbs * c + carry, from limb k downwards
RECURSIVE MulLimbs(_, _, _, _)
MulLimbs(limbs, c, k, carry) ==
  IF k = 0 THEN <<carry>>
  ELSE MulLimbs(limbs, c, k - 1, (limbs[k] * c + carry) \div LimbBase)
         \o <<(limbs[k] * c + carry) % LimbBase>>

\* the exact bits of m * c
MulBits(m, c) ==
  Only({Significant(LimbsToBits(MulLimbs(limbs, c, Len(limbs), 0))) :
          limbs \in {BitsToLimbs(m)}})

\* the exact product bits rounded, the exponent of their first bit being
\* that of x raised by the number of bits gained
RoundProduct(x, bits) ==
  RoundToPrecision(bits, x.e + Len(bits) - Len(x.m), FALSE)

\* x * c for a small integer c >= 2
FloatMulSmall(x, c) ==
  Only({RoundProduct(x, bits) : bits \in {MulBits(x.m, c)}})

\* Math.round(x) for 0 < x < 2^31: the nearest integer, a half rounds up
MathRound(x) ==
  IF x.e < -1 THEN 0
  ELSE IF x.e = -1 THEN 1
  ELSE BitsValue(x.m, x.e + 1) + x.m[x.e + 2]

\* Math.round((successfulRequests / results.length) * 100 * 10), the
\* success rate in tenths of a percent
SuccessRateTenths(successfulRequests, total) ==
  IF successfulRequests = 0 THEN 0
  ELSE Only({MathRound(z) :
               z \in {FloatMulSmall(y, 10) :
                        y \in {FloatMulSmall(x, 100) :
                                 x \in {FloatDiv(successfulRequests, total)}}}})

\* calculateSummary; successRate is kept in tenths of a percent
\* (700 stands for 70.0), a division by zero yields NaN
Summary(total, successfulRequests) ==
  [totalRows |-> total,
   successfulRequests |-> successfulRequests,
   failedRequests |-> total - successfulRequests,
   successRate |-> IF total = 0 THEN "NaN"
                   ELSE SuccessRateTenths(successfulRequests, total)]

\* results.filter(r => r.success).length
CountSuccessful(res) == Cardinality({k \in DOMAIN res : res[k].success})

calculateSummary(res) == Summary(ArrLength(res), CountSuccessful(res))

\* Array.prototype.slice position for a start or end argument
SlicePos(n, k) == IF k < 0 THEN Max(n + k, 0) ELSE Min(k, n)

\* csvRows.slice(i, i + max).map((row, batchIndex) => ({row, index}))
BatchEntries(rows, idx, from, to) ==
  [b \in 1..Max(to - from, 0) |->
     [row |-> rows[from + b], index |-> idx + b - 1]]

\* mutation of SliceEnd: one row too many
SliceEndOneMore(idx, maxConcurrent) == idx + maxConcurrent + 1

\* the end argument of the slice
SliceEnd(idx, maxConcurrent) == idx + maxConcurrent

\* mutation of MakeBatch: every batch starts over at the first row
MakeBatchFromStart(rows, idx, maxConcurrent) ==
  BatchEntries(rows, 0, 0, SlicePos(Len(rows), SliceEnd(idx, maxConcurrent)))

MakeBatch(rows, idx, maxConcurrent) ==
  BatchEntries(rows, idx, SlicePos(Len(rows), idx),
               SlicePos(Len(rows), SliceEnd(idx, maxConcurrent)))

\* number of sample URLs of a validation run
SampleLimit == 3

\* mutation of sampleUrls: the slice is missing
sampleUrlsOfAllRows(rows, siteId, elqFormName) ==
  [k \in 1..Len(rows) |-> buildEloquaUrl(siteId, elqFormName, rows[k], k)]

\* csvRows.slice(0, 3).map((row, index) => buildEloquaUrl(..., index + 1))
sampleUrls(rows, siteId, elqFormName) ==
  [k \in 1..SlicePos(Len(rows), SampleLimit) |->
     buildEloquaUrl(siteId, elqFormName, rows[k], k)]

(***************************************************************************)
(* State                                                                   *)
(***************************************************************************)
VARIABLES
  pc,             \* idle, loop (head of the batch loop), await (allSettled),
                  \* delay (inter-batch setTimeout), done (execute returned)
  params,         \* the parameter object of the job
  csvRows,        \* the parsed rows
  i,              \* loop variable of processBulkSubmissions (0-based)
  batch,          \* the batch of the current iteration
  tasks,          \* per row number: the processRow call and its abort timer
  transport,      \* per row number: what the HTTP transport saw
  results,        \* the results array of processBulkSubmissions
  processedCount, \* processedCount of processBulkSubmissions
  progressLog,    \* the "Processed x/y rows (z%)" messages shown so far
  result          \* the ToolResult, <<>> until execute returns

vars == <<pc, params, csvRows, i, batch, tasks, transport, results,
          processedCount, progressLog, result>>

\* a processRow call that has not been made
IdleTask ==
  [st |-> "idle", timer |-> "unset", status |-> 0, row |-> <<>>, value |-> <<>>]

\* the transport's view of a row: POSTs received, the URL and body of the
\* POST, how the exchange went and the status code it answered with
IdleTransport ==
  [posts |-> 0, exchange |-> "none", status |-> 0, url |-> <<>>, body |-> <<>>]

Init ==
  /\ pc = "idle"
  /\ params = <<>>
  /\ csvRows = <<>>
  /\ i = 0
  /\ batch = <<>>
  /\ tasks = <<>>
  /\ transport = <<>>
  /\ results = <<>>
  /\ processedCount = 0
  /\ progressLog = <<>>
  /\ result = <<>>

(***************************************************************************)
(* ToolExecutor.execute and FormBulkSubmitTool.execute up to the first     *)
(* suspension: parameter validation, CSV parsing, validate-only mode.      *)
(***************************************************************************)
Failure(error) == [success |-> FALSE, error |-> error]

\* mutation of NoDataRows: the empty-list check is missing
NoDataRowsUnchecked(rows) == FALSE

\* csvRows.length === 0
NoDataRows(rows) == Len(rows) = 0

ValidationResult(rows, siteId, elqFormName) ==
  [success |-> TRUE,
   data |-> [validation |->
               [totalRows |-> Len(rows),
                validRows |-> Len(rows),
                sampleUrls |-> sampleUrls(rows, siteId, elqFormName)]]]

\* the job returns r without entering the batch loop
ReturnEarly(r, rows) ==
  /\ pc' = "done"
  /\ result' = r
  /\ csvRows' = rows
  /\ tasks' = [r2 \in 1..Len(rows) |-> IdleTask]
  /\ transport' = [r2 \in 1..Len(rows) |-> IdleTransport]
  /\ UNCHANGED <<i, batch, results, processedCount, progressLog>>

\* processBulkSubmissions is entered
EnterLoop(rows) ==
  /\ pc' = "loop"
  /\ csvRows' = rows
  /\ i' = 0
  /\ results' = <<>>
  /\ processedCount' = 0
  /\ tasks' = [r \in 1..Len(rows) |-> IdleTask]
  /\ transport' = [r \in 1..Len(rows) |-> IdleTransport]
  /\ UNCHANGED <<batch, progressLog, result>>

\* new Array(n) throws a RangeError unless n is an integer in 0..2^32-1
\* (the option values drawn here are integers far below 2^32)
ValidArrayLength(n) == n >= 0

\* FormBulkSubmitTool.execute after parseCsvData returned or threw
ExecuteParsed(p, parsed) ==
  IF ~parsed.ok THEN ReturnEarly(Failure(parsed.error), <<>>)
  ELSE IF NoDataRows(parsed.rows)
  THEN ReturnEarly(Failure(<<"No valid data rows found in CSV">>), <<>>)
  ELSE IF p.validateOnly
  THEN ReturnEarly(ValidationResult(parsed.rows, p.siteId, p.elqFormName),
                   parsed.rows)
  ELSE IF ~ValidArrayLength(p.maxConcurrentRequests)
  THEN ReturnEarly(Failure(<<"Invalid array length">>), parsed.rows)
  ELSE EnterLoop(parsed.rows)

\* getExamples(exampleType) for the default exampleType 'all'
getExamples ==
  [success |-> TRUE,
   data |-> [exampleType |-> "all",
             description |-> "Form Bulk Submit all examples"]]

getUsageGuide ==
  [success |-> TRUE,
   data |-> [description |-> "Complete usage guide for Form Bulk Submit tool"]]

\* FormBulkSubmitTool.execute: the operation switch, then the submit path
ExecuteOperation(p) ==
  IF p.operation = "get-examples" THEN ReturnEarly(getExamples, <<>>)
  ELSE IF p.operation = "get-usage-guide" THEN ReturnEarly(getUsageGuide, <<>>)
  ELSE ExecuteParsed(p, parseCsvData(p.csvData))

\* ToolExecutor.execute: validateParameters, then tool.execute
Execute(p) ==
  /\ params' = p
  /\ IF ~validateParameters(p)
     THEN ReturnEarly(Failure(<<"Invalid parameters provided">>), <<>>)
     ELSE ExecuteOperation(p)

(***************************************************************************)
(* processBulkSubmissions: the batch loop                                  *)
(***************************************************************************)
\* row numbers of the processRow calls of a batch
BatchRowNumbers(b) == {b[k].index + 1 : k \in 1..Len(b)}

\* the row of the batch entry that carries row number r
RowOf(b, r) == b[CHOOSE k \in 1..Len(b) : b[k].index + 1 = r].row

\* processRow up to await fetch: the timer is armed, the POST is issued
StartedTask(rowData) ==
  [st |-> "fetching", timer |-> "armed", status |-> 0, row |-> rowData,
   value |-> <<>>]

\* loop head and batch.map(processRow): every row of the batch runs
\* synchronously up to its await fetch(...)
StartBatch ==
  /\ pc = "loop"
  /\ i < Len(csvRows)
  /\ batch' = MakeBatch(csvRows, i, params.maxConcurrentRequests)
  /\ tasks' = [r \in DOMAIN tasks |->
                 IF r \in BatchRowNumbers(batch')
                 THEN StartedTask(RowOf(batch', r)) ELSE tasks[r]]
  /\ transport' = [r \in DOMAIN transport |->
                     IF r \in BatchRowNumbers(batch')
                     THEN [posts |-> transport[r].posts + 1,
                           exchange |-> "pending", status |-> 0,
                           url |-> buildEloquaUrl(params.siteId,
                                     params.elqFormName, RowOf(batch', r), r),
                           body |-> RequestBody(RowOf(batch', r))]
                     ELSE transport[r]]
  /\ pc' = "await"
  /\ UNCHANGED <<params, csvRows, i, results, processedCount, progressLog, result>>

\* Promise.allSettled(batchPromises) resolves
AllSettled(b) == \A k \in 1..Len(b) : tasks[b[k].index + 1].st = "settled"

\* the value the forEach callback stores for one settled promise
BatchResultValue(entry, settledResult) ==
  IF settledResult.status = "fulfilled" THEN settledResult.value
  ELSE RejectedOutcome(entry, settledResult.reason)

\* mutation of ResultIndex: the position inside the batch
ResultIndexInBatch(b, batchIndex) == batchIndex - 1

\* the 0-based position the forEach callback writes
ResultIndex(b, batchIndex) == b[batchIndex].index

\* batchResults.forEach from batchIndex k on
RECURSIVE WriteResults(_, _, _)
WriteResults(res, b, k) ==
  IF k > Len(b) THEN res
  ELSE WriteResults(
         ArrSet(res, ResultIndex(b, k),
                BatchResultValue(b[k], tasks[b[k].index + 1].value[1])),
         b, k + 1)

\* Math.round((processedCount / csvRows.length) * 100)
ProgressEntry(count, total) == <<count, total, RoundDiv(count * 100, total)>>

\* mutation of NeedsDelay: the pause is taken after every batch
NeedsDelayAfterEveryBatch(idx, options, total) ==
  options.delayBetweenRequests > 0

\* the inter-batch pause is taken
NeedsDelay(idx, options, total) ==
  options.delayBetweenRequests > 0 /\ idx + options.maxConcurrentRequests < total

\* mutation of NextIndex: a window sliding by one row
NextIndexByOne(idx, maxConcurrent) == idx + 1

\* i += options.maxConcurrentRequests
NextIndex(idx, maxConcurrent) == idx + maxConcurrent

\* continuation of await Promise.allSettled: results, progress, then either
\* the inter-batch setTimeout or the next iteration
CollectBatch ==
  /\ pc = "await"
  /\ AllSettled(batch)
  /\ results' = WriteResults(results, batch, 1)
  /\ processedCount' = processedCount + Len(batch)
  /\ progressLog' = progressLog \o
       [k \in 1..Len(batch) |-> ProgressEntry(processedCount + k, Len(csvRows))]
  /\ IF NeedsDelay(i, params, Len(csvRows))
     THEN pc' = "delay" /\ i' = i
     ELSE pc' = "loop" /\ i' = NextIndex(i, params.maxConcurrentRequests)
  /\ UNCHANGED <<params, csvRows, batch, tasks, transport, result>>

\* the inter-batch setTimeout fires
DelayElapsed ==
  /\ pc = "delay"
  /\ pc' = "loop"
  /\ i' = NextIndex(i, params.maxConcurrentRequests)
  /\ UNCHANGED <<params, csvRows, batch, tasks, transport, results,
                 processedCount, progressLog, result>>

\* the loop ends: calculateSummary and the ToolResult of execute
Finish ==
  /\ pc = "loop"
  /\ ~(i < Len(csvRows))
  /\ result' = [success |-> TRUE,
                data |-> [summary |-> calculateSummary(results),
                          results |-> results]]
  /\ pc' = "done"
  /\ UNCHANGED <<params, csvRows, i, batch, tasks, transport, results,
                 processedCount, progressLog>>

(***************************************************************************)
(* processRow: one HTTP POST with its abort timer                          *)
(***************************************************************************)
Fulfilled(v) == [status |-> "fulfilled", value |-> v]

\* processRow returns outcome v for row number r
Settle(r, v, exchange) ==
  /\ tasks' = [tasks EXCEPT ![r].st = "settled", ![r].value = <<Fulfilled(v)>>]
  /\ transport' = [transport EXCEPT ![r].exchange = exchange]

\* fetch resolves with the response headers; clearTimeout(timeoutId);
\* processRow then awaits response.text()
FetchResolves(r, status) ==
  /\ tasks[r].st = "fetching"
  /\ tasks' = [tasks EXCEPT ![r].st = "reading", ![r].timer = "cleared",
                            ![r].status = status]
  /\ transport' = [transport EXCEPT ![r].exchange = "headers",
                                    ![r].status = status]
  /\ UNCHANGED <<pc, params, csvRows, i, batch, results, processedCount,
                 progressLog, result>>

\* fetch rejects with a network error (TypeError); the catch block returns
FetchRejects(r) ==
  /\ tasks[r].st = "fetching"
  /\ Settle(r, FailureOutcome(tasks[r].row, r, "TypeError", "Failed to fetch"),
            "neterror")
  /\ UNCHANGED <<pc, params, csvRows, i, batch, results, processedCount,
                 progressLog, result>>

\* the abort timer fires: controller.abort() rejects a pending fetch with an
\* AbortError; after the call returned it has no effect
TimerFires(r) ==
  /\ tasks[r].timer = "armed"
  /\ IF tasks[r].st = "fetching"
     THEN /\ tasks' = [tasks EXCEPT
                         ![r].st = "settled", ![r].timer = "fired",
                         ![r].value = <<Fulfilled(
                            FailureOutcome(tasks[r].row, r, "AbortError",
                                           "The user aborted a request."))>>]
          /\ transport' = [transport EXCEPT ![r].exchange = "aborted"]
     ELSE /\ tasks' = [tasks EXCEPT ![r].timer = "fired"]
          /\ UNCHANGED transport
  /\ UNCHANGED <<pc, params, csvRows, i, batch, results, processedCount,
                 progressLog, result>>

\* response.text() resolves: the success outcome
TextResolves(r) ==
  /\ tasks[r].st = "reading"
  /\ Settle(r, SuccessOutcome(tasks[r].row, params.siteId, params.elqFormName,
                              r, tasks[r].status), "completed")
  /\ UNCHANGED <<pc, params, csvRows, i, batch, results, processedCount,
                 progressLog, result>>

\* response.text() rejects (the connection broke while the body streamed)
TextRejects(r) ==
  /\ tasks[r].st = "reading"
  /\ Settle(r, FailureOutcome(tasks[r].row, r, "TypeError", "network error"),
            "bodyerror")
  /\ UNCHANGED <<pc, params, csvRows, i, batch, results, processedCount,
                 progressLog, result>>

\* a job is submitted through ToolExecutor.execute
Submit == pc = "idle" /\ \E p \in Parameters : Execute(p)

Next ==
  \/ Submit
  \/ StartBatch
  \/ CollectBatch
  \/ DelayElapsed
  \/ Finish
  \/ \E r \in DOMAIN tasks, status \in StatusCodes : FetchResolves(r, status)
  \/ \E r \in DOMAIN tasks : FetchRejects(r)
  \/ \E r \in DOMAIN tasks : TimerFires(r)
  \/ \E r \in DOMAIN tasks : TextResolves(r)
  \/ \E r \in DOMAIN tasks : TextRejects(r)

Spec == Init /\ [][Next]_vars

(***************************************************************************)
(* A progress sink that throws.  context.showProgress is supplied by the   *)
(* caller of ToolExecutor.execute; here it throws on a "Processed x/y"     *)
(* message, inside the forEach callback of processBatch.  The exception    *)
(* leaves processBatch and processBulkSubmissions and is caught by the     *)
(* catch block of execute.                                                 *)
(***************************************************************************)
SinkErrorMessage == "showProgress failed"

\* the callback of the k-th settled promise has written results[rowIndex] and
\* incremented processedCount when its showProgress call throws
ProgressThrows(k) ==
  /\ pc = "await"
  /\ AllSettled(batch)
  /\ results' = WriteResults(results, SubSeq(batch, 1, k), 1)
  /\ processedCount' = processedCount + k
  /\ progressLog' = progressLog \o
       [j \in 1..(k - 1) |-> ProgressEntry(processedCount + j, Len(csvRows))]
  /\ result' = Failure(<<SinkErrorMessage>>)
  /\ pc' = "done"
  /\ UNCHANGED <<params, csvRows, i, batch, tasks, transport>>

NextSink ==
  \/ Next
  \/ \E k \in DOMAIN batch : ProgressThrows(k)

SpecSink == Init /\ [][NextSink]_vars

(***************************************************************************)
(* Jobs submitted with any parameter object.                               *)
(***************************************************************************)
SubmitWide == pc = "idle" /\ \E p \in WideParameters : Execute(p)

NextWide ==
  \/ SubmitWide
  \/ StartBatch
  \/ CollectBatch
  \/ DelayElapsed
  \/ Finish
  \/ \E r \in DOMAIN tasks, status \in StatusCodes : FetchResolves(r, status)
  \/ \E r \in DOMAIN tasks : FetchRejects(r)
  \/ \E r \in DOMAIN tasks : TimerFires(r)
  \/ \E r \in DOMAIN tasks : TextResolves(r)
  \/ \E r \in DOMAIN tasks : TextRejects(r)

SpecWide == Init /\ [][NextWide]_vars

\* one step of the processRow call of row number r
RowStep(r) ==
  \/ \E status \in StatusCodes : FetchResolves(r, status)
  \/ FetchRejects(r)
  \/ TimerFires(r)
  \/ TextResolves(r)
  \/ TextRejects(r)

\* every row submission returns (the transport answers or the timer aborts
\* it, and a body read ends) and the event loop runs ready continuations
SpecWideFair ==
  /\ Init
  /\ [][NextWide]_vars
  /\ WF_vars(StartBatch)
  /\ WF_vars(CollectBatch)
  /\ WF_vars(DelayElapsed)
  /\ WF_vars(Finish)
  /\ WF_vars(\E r \in DOMAIN tasks : tasks[r].st # "settled" /\ RowStep(r))

(***************************************************************************)
(* A transport that never answers: no fetch call resolves or rejects by    *)
(* itself.  The event loop runs every timer that is due and every          *)
(* continuation that is ready, which is the fairness stated here.          *)
(***************************************************************************)
NextStalled ==
  \/ Submit
  \/ StartBatch
  \/ CollectBatch
  \/ DelayElapsed
  \/ Finish
  \/ \E r \in DOMAIN tasks : TimerFires(r)

SpecStalled ==
  /\ Init
  /\ [][NextStalled]_vars
  /\ WF_vars(StartBatch)
  /\ WF_vars(CollectBatch)
  /\ WF_vars(DelayElapsed)
  /\ WF_vars(Finish)
  /\ WF_vars(\E r \in DOMAIN tasks : TimerFires(r))

(***************************************************************************)
(* A response body that never ends: the transport answers with the         *)
(* response headers or fails the request, but no response.text() call      *)
(* resolves or rejects.  The event loop runs every timer that is due and   *)
(* every continuation that is ready.                                       *)
(***************************************************************************)
NextBodyStalled ==
  \/ Submit
  \/ StartBatch
  \/ CollectBatch
  \/ DelayElapsed
  \/ Finish
  \/ \E r \in DOMAIN tasks, status \in StatusCodes : FetchResolves(r, status)
  \/ \E r \in DOMAIN tasks : FetchRejects(r)
  \/ \E r \in DOMAIN tasks : TimerFires(r)

SpecBodyStalled ==
  /\ Init
  /\ [][NextBodyStalled]_vars
  /\ WF_vars(StartBatch)
  /\ WF_vars(CollectBatch)
  /\ WF_vars(DelayElapsed)
  /\ WF_vars(Finish)
  /\ WF_vars(\E r \in DOMAIN tasks : TimerFires(r))

(***************************************************************************)
(* calculateSummary on its own: applied to an outcome list of any length   *)
(* (it is a pure function of the list).                                    *)
(***************************************************************************)
\* n outcomes of which s are successful, the successful ones first or last
OutcomeList(s, n, successFirst) ==
  [k \in 1..n |->
     [rowNumber |-> k,
      success |-> IF successFirst THEN k <= s ELSE k > n - s,
      parametersCount |-> 1]]

OutcomeLists ==
  {OutcomeList(p[1], p[2], f) :
     p \in UNION {{<<s, n>> : s \in 0..n} : n \in 0..MaxOutcomes},
     f \in BOOLEAN}

InitSummary ==
  /\ pc = "outcomes"
  /\ results \in OutcomeLists
  /\ params = <<>>
  /\ csvRows = <<>>
  /\ i = 0
  /\ batch = <<>>
  /\ tasks = <<>>
  /\ transport = <<>>
  /\ processedCount = 0
  /\ progressLog = <<>>
  /\ result = <<>>

\* calculateSummary(results) returns
Summarize ==
  /\ pc = "outcomes"
  /\ pc' = "summarized"
  /\ result' = [summary |-> calculateSummary(results)]
  /\ UNCHANGED <<params, csvRows, i, batch, tasks, transport, results,
                 processedCount, progressLog>>

NextSummary == Summarize

SpecSummary == InitSummary /\ [][NextSummary]_vars

(***************************************************************************)
(* BulkSyncDeletionTool: deleteSyncs and deleteContactFields.  The two     *)
(* loops are the same text up to the call that deletes one item            *)
(* (processSyncDeletion, deleteContactFieldWithDependencies).  A job of    *)
(* this tool keeps in                                                      *)
(*   params         the parameters after the defaults of execute,          *)
(*   csvRows        the ids after extractSyncIds / extractContactFieldIds, *)
(*   i, batch       the loop variable and the item numbers of the batch,   *)
(*   tasks          per item number: the async callback of batch.map,      *)
(*   processedCount, results, progressLog   processed, results and the     *)
(*                  progress messages,                                     *)
(*   result         the ToolResult.                                        *)
(***************************************************************************)
DeletionOperations == {"delete-syncs", "delete-contact-fields"}

\* n different ids
IdList(n) == [k \in 1..n |-> k]

DeletionDelays == {0, 200}

\* parameter objects that pass validateParameters
DeletionParameters ==
  [operation : DeletionOperations,
   ids : {IdList(n) : n \in 1..MaxIds},
   batchSize : 1..MaxBatchSize,
   delayBetweenRequests : DeletionDelays,
   maxConcurrentRequests : 1..MaxConc]

\* execute up to the head of the batch loop
DeleteItems(p) ==
  /\ params' = p
  /\ csvRows' = p.ids
  /\ i' = 0
  /\ batch' = <<>>
  /\ tasks' = [k \in 1..Len(p.ids) |-> [st |-> "idle", success |-> FALSE]]
  /\ results' = <<>>
  /\ processedCount' = 0
  /\ progressLog' = <<>>
  /\ pc' = "batches"
  /\ UNCHANGED <<transport, result>>

SubmitDeletion == pc = "idle" /\ \E p \in DeletionParameters : DeleteItems(p)

\* ids.slice(i, i + batchSize), as item numbers
DeletionBatch(idx, batchSize, total) ==
  [k \in 1..(Min(idx + batchSize, total) - idx) |-> idx + k]

\* the async callback of batch.map runs up to its first await: the first
\* item calls the deleting function, the others await this.delay(...)
CallbackStart(index) == IF index > 0 THEN "delaying" ELSE "deleting"

\* loop head, batch.map and the chunking of the promises
StartDeletionBatch ==
  /\ pc = "batches"
  /\ i < Len(csvRows)
  /\ batch' = DeletionBatch(i, params.batchSize, Len(csvRows))
  /\ tasks' = [k \in DOMAIN tasks |->
                 IF k > i /\ k <= i + Len(batch')
                 THEN [st |-> CallbackStart(k - i - 1), success |-> FALSE]
                 ELSE tasks[k]]
  /\ pc' = "chunks"
  /\ UNCHANGED <<params, csvRows, i, transport, results, processedCount,
                 progressLog, result>>

\* the delay of item k is over: its callback calls the deleting function
DelayOver(k) ==
  /\ tasks[k].st = "delaying"
  /\ tasks' = [tasks EXCEPT ![k].st = "deleting"]
  /\ UNCHANGED <<pc, params, csvRows, i, batch, transport, results,
                 processedCount, progressLog, result>>

\* the deleting function of item k returns its result
DeletionReturns(k, success) ==
  /\ tasks[k].st = "deleting"
  /\ tasks' = [tasks EXCEPT ![k].st = "returned", ![k].success = success]
  /\ UNCHANGED <<pc, params, csvRows, i, batch, transport, results,
                 processedCount, progressLog, result>>

\* batchPromises.slice(j, j + maxConcurrentRequests) for the chunk that is
\* awaited when `processed` items are done, as item numbers
AwaitedChunk(idx, b, processed, maxConcurrent) ==
  SubSeq(b, processed - idx + 1, Min(processed - idx + maxConcurrent, Len(b)))

DeletionResult(k) == [syncId |-> csvRows[k], success |-> tasks[k].success]

ChunkResults(chunk) == [c \in 1..Len(chunk) |-> DeletionResult(chunk[c])]

\* continuation of await chunk: results, processed, progress, then the next
\* chunk or the next batch
CollectChunk ==
  /\ pc = "chunks"
  /\ \A c \in 1..Len(AwaitedChunk(i, batch, processedCount,
                                   params.maxConcurrentRequests)) :
        tasks[AwaitedChunk(i, batch, processedCount,
                           params.maxConcurrentRequests)[c]].st = "returned"
  /\ results' = results \o
       ChunkResults(AwaitedChunk(i, batch, processedCount,
                                 params.maxConcurrentRequests))
  /\ processedCount' = processedCount +
       Len(AwaitedChunk(i, batch, processedCount, params.maxConcurrentRequests))
  /\ progressLog' =
       Append(progressLog, ProgressEntry(processedCount', Len(csvRows)))
  /\ IF processedCount' - i < Len(batch)
     THEN pc' = "chunks" /\ i' = i
     ELSE pc' = "batches" /\ i' = i + params.batchSize
  /\ UNCHANGED <<params, csvRows, batch, tasks, transport, result>>

CountDeleted(res) == Cardinality({k \in 1..Len(res) : res[k].success})

DeletionSummary(res) ==
  [totalSyncs |-> Len(res),
   successfulDeletions |-> CountDeleted(res),
   failedDeletions |-> Len(res) - CountDeleted(res),
   successRate |-> RoundDiv(CountDeleted(res) * 100, Len(res)),
   skippedSyncs |-> 0]

\* the loop ends: summary and ToolResult
FinishDeletion ==
  /\ pc = "batches"
  /\ ~(i < Len(csvRows))
  /\ result' = [success |-> TRUE,
                data |-> [summary |-> DeletionSummary(results),
                          results |-> results]]
  /\ pc' = "deleted"
  /\ UNCHANGED <<params, csvRows, i, batch, tasks, transport, results,
                 processedCount, progressLog>>

NextDeletion ==
  \/ SubmitDeletion
  \/ StartDeletionBatch
  \/ CollectChunk
  \/ FinishDeletion
  \/ \E k \in DOMAIN tasks : DelayOver(k)
  \/ \E k \in DOMAIN tasks, success \in BOOLEAN : DeletionReturns(k, success)

SpecDeletion == Init /\ [][NextDeletion]_vars

(***************************************************************************)
(* BulkSyncDeletionTool.deleteContactFieldWithDependencies for one field,  *)
(* with the request path it calls: eloquaApiService.makeRequest in the     *)
(* renderer, the 'eloqua:apiCall' handler in the main process.  Here       *)
(*   params     holds the fieldId,                                         *)
(*   transport  is the list of requests sent to Eloqua, each with the      *)
(*              answer it got,                                             *)
(*   tasks, i   are the dependencies being resolved and the loop position, *)
(*   result     is the SyncDeletionResult.                                 *)
(***************************************************************************)
DependencyTypes == {"BulkExport", "BulkImport", "Segment"}

Dependencies == [id : 1..MaxDeps, type : DependencyTypes]

DependencyLists == UNION {[1..n -> Dependencies] : n \in 0..MaxDeps}

\* what Eloqua answers to a DELETE: done, refused for dependencies, failed
ServerAnswers ==
  {[status |-> 200, dependencies |-> <<>>]}
    \cup {[status |-> 412, dependencies |-> d] : d \in DependencyLists}
    \cup {[status |-> st, dependencies |-> <<>>] : st \in {401, 403, 500}}

\* the Error the 'eloqua:apiCall' handler throws for a refused request; it
\* carries a message only
ApiCallError(answer) ==
  IF answer.status = 401
  THEN [message |-> <<"Authentication failed. Please log in again.">>]
  ELSE IF answer.status = 403
  THEN [message |-> <<"Access denied for this operation.">>]
  ELSE [message |-> <<"API error (", answer.status, ")">>]

\* the Error makeRequest throws from its catch block
MakeRequestError(error) ==
  [message |-> <<"API request failed: ">> \o error.message]

\* error.response?.status, 0 standing for undefined
ResponseStatus(error) ==
  IF "response" \in DOMAIN error THEN error.response.status ELSE 0

IsBulkDependency(dependency) ==
  dependency.type = "BulkExport" \/ dependency.type = "BulkImport"

\* parseDependenciesFromError
parseDependenciesFromError(error) ==
  IF "response" \notin DOMAIN error THEN <<>>
  ELSE SelectSeq(error.response.data.dependencies, IsBulkDependency)

FieldRequest(fieldId) ==
  [method |-> "DELETE", target |-> "field", id |-> fieldId, answer |-> <<>>]

FieldDeleted(fieldId) ==
  [syncId |-> fieldId, success |-> TRUE, statusCode |-> 200]

\* the result of the outer catch block
FieldFailed(fieldId, error) ==
  [syncId |-> fieldId, success |-> FALSE,
   statusCode |-> ResponseStatus(error), error |-> error.message]

\* deleteContactFieldWithDependencies(fieldId) up to its first await
CallDeleteField ==
  /\ pc = "idle"
  /\ \E fieldId \in 1..MaxIds :
       /\ params' = [fieldId |-> fieldId]
       /\ transport' = <<FieldRequest(fieldId)>>
  /\ pc' = "first-delete"
  /\ UNCHANGED <<csvRows, i, batch, tasks, results, processedCount,
                 progressLog, result>>

\* the catch block of step 1 for the error that makeRequest threw; steps 3
\* and 4 (resolveDependencies, the retry) follow its first branch
FirstDeleteFailed(fieldId, error) ==
  IF ResponseStatus(error) = 412 /\ parseDependenciesFromError(error) # <<>>
  THEN /\ tasks' = parseDependenciesFromError(error)
       /\ i' = 1
       /\ pc' = "resolving"
       /\ UNCHANGED result
  ELSE /\ result' = FieldFailed(fieldId, error)
       /\ pc' = "returned"
       /\ UNCHANGED <<tasks, i>>

\* the first DELETE of the field is answered
FirstDeleteAnswered(answer) ==
  /\ pc = "first-delete"
  /\ transport' = [transport EXCEPT ![1].answer = answer]
  /\ IF answer.status = 200
     THEN /\ result' = FieldDeleted(params.fieldId)
          /\ pc' = "returned"
          /\ UNCHANGED <<tasks, i>>
     ELSE FirstDeleteFailed(params.fieldId,
                            MakeRequestError(ApiCallError(answer)))
  /\ UNCHANGED <<params, csvRows, batch, results, processedCount,
                 progressLog>>

NextFieldDeletion ==
  \/ CallDeleteField
  \/ \E answer \in ServerAnswers : FirstDeleteAnswered(answer)

SpecFieldDeletion == Init /\ [][NextFieldDeletion]_vars

(***************************************************************************)
(* The useTool hook (renderer/hooks/useTool.ts).  Here                     *)
(*   result   is the UseToolState kept by useState,                        *)
(*   tasks    is, per executeTool call, where the call stands.             *)
(* Every updateState is a functional setState: it merges its updates into  *)
(* the latest state.                                                       *)
(***************************************************************************)
\* null
Null == <<>>

ToolIds == {"form-bulk-submit-tool", "no-such-tool"}

isToolRegistered(toolId) == toolId = "form-bulk-submit-tool"

\* the results ToolExecutor.execute resolves with
ToolResults ==
  {[success |-> TRUE], [success |-> FALSE, error |-> "Operation failed"]}

\* useState's initial state; no executeTool call made yet
InitHook ==
  /\ result = [isExecuting |-> FALSE, progress |-> Null, result |-> Null,
               error |-> Null]
  /\ tasks = [c \in 1..MaxCalls |-> "idle"]
  /\ pc = "mounted"
  /\ params = <<>>
  /\ csvRows = <<>>
  /\ i = 0
  /\ batch = <<>>
  /\ transport = <<>>
  /\ results = <<>>
  /\ processedCount = 0
  /\ progressLog = <<>>

ToolNotFound(toolId) ==
  [success |-> FALSE, error |-> <<"Tool '", toolId, "' not found">>]

\* executeTool(toolId, parameters) up to its first await, or to its return
\* for a tool that is not registered
CallExecuteTool(c, toolId) ==
  /\ tasks[c] = "idle"
  /\ IF ~isToolRegistered(toolId)
     THEN /\ result' = [isExecuting |-> FALSE, progress |-> Null,
                        result |-> ToolNotFound(toolId), error |-> Null]
          /\ tasks' = [tasks EXCEPT ![c] = "returned"]
     ELSE /\ result' = [isExecuting |-> TRUE, progress |-> Null,
                        result |-> Null, error |-> Null]
          /\ tasks' = [tasks EXCEPT ![c] = "running"]
  /\ UNCHANGED <<pc, params, csvRows, i, batch, transport, results,
                 processedCount, progressLog>>

\* context.showProgress(message) from the running tool of call c
ShowProgress(c) ==
  /\ tasks[c] = "running"
  /\ result' = [result EXCEPT !.progress = "message"]
  /\ UNCHANGED <<pc, params, csvRows, i, batch, tasks, transport, results,
                 processedCount, progressLog>>

\* showError of a failed result, null otherwise unchanged
ErrorShown(error, toolResult) ==
  IF toolResult.success THEN error ELSE toolResult.error

\* ToolExecutor.execute of call c resolves: showError for a failed result,
\* hideProgress, then updateState({result, isExecuting: false})
ExecuteResolves(c, toolResult) ==
  /\ tasks[c] = "running"
  /\ result' = [isExecuting |-> FALSE, progress |-> Null,
                result |-> toolResult,
                error |-> ErrorShown(result.error, toolResult)]
  /\ tasks' = [tasks EXCEPT ![c] = "returned"]
  /\ UNCHANGED <<pc, params, csvRows, i, batch, transport, results,
                 processedCount, progressLog>>

NextHook ==
  \/ \E c \in 1..MaxCalls, toolId \in ToolIds : CallExecuteTool(c, toolId)
  \/ \E c \in 1..MaxCalls : ShowProgress(c)
  \/ \E c \in 1..MaxCalls, r \in ToolResults : ExecuteResolves(c, r)

SpecHook == InitHook /\ [][NextHook]_vars

(***************************************************************************)
(* Properties                                                              *)
(***************************************************************************)
\* execute returned the {summary, results} payload of a submit run
SubmitDone == pc = "done" /\ result.success /\ ~params.validateOnly

\* row submissions that were started and have no outcome yet
InFlight == {r \in DOMAIN tasks : tasks[r].st \in {"fetching", "reading"}}

\* 0-based number of the batch that row number r belongs to
BatchOf(r) == (r - 1) \div params.maxConcurrentRequests

\* C1: after a submit run completed, the returned results list has exactly
\* one entry per parsed row, entry k carries rowNumber k and the k-th parsed
\* row as data, whatever way each request completed, failed or timed out.
C1_OrderInvariant ==
  SubmitDone =>
    /\ DOMAIN result.data.results = 1..Len(csvRows)
    /\ \A k \in 1..Len(csvRows) :
         /\ result.data.results[k].rowNumber = k
         /\ "data" \in DOMAIN result.data.results[k]
         /\ result.data.results[k].data = csvRows[k]

\* a completed run of two batches in which a row timed out, a later row
\* succeeded and a row of the next batch failed on the network
C1_Witness ==
  /\ SubmitDone
  /\ Len(csvRows) >= 3
  /\ params.maxConcurrentRequests = 2
  /\ transport[1].exchange = "aborted"
  /\ transport[2].exchange = "completed"
  /\ transport[3].exchange = "neterror"

\* C2: at every moment of a submit run the number of row submissions that
\* were started and have not produced an outcome is at most
\* maxConcurrentRequests.
C2_ConcurrencyBound ==
  pc # "idle" => Cardinality(InFlight) <= params.maxConcurrentRequests

\* a full batch in flight, one request waiting for headers and one for its body
C2_Witness ==
  /\ pc = "await"
  /\ params.maxConcurrentRequests >= 2
  /\ Cardinality(InFlight) = params.maxConcurrentRequests
  /\ \E r \in InFlight : tasks[r].st = "reading"

\* C3: the rows awaited together are exactly the next maxConcurrentRequests
\* rows in original order (fewer only at the end of the list), batches start
\* at multiples of maxConcurrentRequests, and a row is started only when
\* every row of every earlier batch has its outcome in the results list.
C3_BatchSynchronous ==
  pc \in {"loop", "await", "delay"} =>
    /\ i % params.maxConcurrentRequests = 0
    /\ pc = "await" =>
         BatchRowNumbers(batch) =
           {r \in 1..Len(csvRows) :
              i < r /\ r <= i + params.maxConcurrentRequests}
    /\ \A r \in DOMAIN tasks :
         tasks[r].st # "idle" =>
           \A q \in DOMAIN tasks : BatchOf(q) < BatchOf(r) => q \in DOMAIN results

\* the last, smaller batch is in flight after a full batch was recorded
C3_Witness ==
  /\ pc = "await"
  /\ i > 0
  /\ Len(batch) < params.maxConcurrentRequests
  /\ InFlight # {}
  /\ DOMAIN results = 1..i

\* the lines of a CSV text as the user wrote it, outer whitespace removed
RawLines(csv) == Split(Trim(csv), "\n")

\* the cells of a line have a non-empty text after trimming
SomeCellFilled(cells) == \E c \in 1..Len(cells) : Trim(cells[c]) # <<>>

\* a cell in one of the first n columns has a non-empty text after trimming
SomeCellFilledWithin(cells, n) ==
  \E c \in 1..Min(Len(cells), n) : Trim(cells[c]) # <<>>

\* the lines of the CSV text after validateCsvData sanitized it
SanitizedLines(csv) == Split(Trim(validateCsvData(csv).sanitizedValue), "\n")

\* data lines of the written CSV text with some non-empty cell
RawFilledLines(csv) ==
  {l \in 2..Len(RawLines(csv)) : SomeCellFilled(parseCsvLine(RawLines(csv)[l]))}

\* data lines of the sanitized CSV text with a non-empty cell in a header column
CountedLines(csv) ==
  {l \in 2..Len(SanitizedLines(csv)) :
     SomeCellFilledWithin(parseCsvLine(Trim(SanitizedLines(csv)[l])),
                          Len(parseCsvLine(SanitizedLines(csv)[1])))}

\* C4 (as amended): for every completed submit run, summary.totalRows = the
\* length of results = the number of data lines of the sanitized CSV text
\* that have a cell, in one of the header's columns, that is non-empty after
\* trimming; and successfulRequests + failedRequests = totalRows.
C4_CountInvariant ==
  SubmitDone =>
    /\ result.data.summary.totalRows = ArrLength(result.data.results)
    /\ result.data.summary.totalRows = Cardinality(CountedLines(params.csvData))
    /\ result.data.summary.successfulRequests
         + result.data.summary.failedRequests = result.data.summary.totalRows

\* C4 (as claimed): totalRows is the number of data lines with at least one
\* non-empty cell after trimming.
C4_AsClaimed ==
  SubmitDone =>
    /\ result.data.summary.totalRows = ArrLength(result.data.results)
    /\ result.data.summary.totalRows = Cardinality(RawFilledLines(params.csvData))
    /\ result.data.summary.successfulRequests
         + result.data.summary.failedRequests = result.data.summary.totalRows

\* a completed run over a CSV text with a blank and an all-empty data line
C4_Witness ==
  /\ SubmitDone
  /\ result.data.summary.totalRows = 2
  /\ Len(RawLines(params.csvData)) = 5
  /\ result.data.summary.failedRequests = 1

\* C5: a job with validateOnly = true never issues an HTTP request; for N
\* parsed rows it returns totalRows = N, validRows = N and min(3, N) sample
\* URLs, the k-th built from the k-th row, and starts no row submission.
C5_ValidateOnly ==
  (pc # "idle" /\ params.validateOnly) =>
    /\ \A r \in DOMAIN transport : transport[r].posts = 0
    /\ \A r \in DOMAIN tasks : tasks[r].st = "idle"
    /\ (pc = "done" /\ result.success) =>
         /\ result.data.validation.totalRows = Len(csvRows)
         /\ result.data.validation.validRows = Len(csvRows)
         /\ Len(result.data.validation.sampleUrls) = Min(3, Len(csvRows))
         /\ \A k \in 1..Len(result.data.validation.sampleUrls) :
              result.data.validation.sampleUrls[k] =
                buildEloquaUrl(params.siteId, params.elqFormName, csvRows[k], k)

\* a validation run over more than three rows
C5_Witness ==
  /\ pc = "done"
  /\ params.validateOnly
  /\ result.success
  /\ Len(csvRows) > 3
  /\ Len(result.data.validation.sampleUrls) = 3

\* C6: row-level failures never fail the job: once a POST was issued the job
\* can only return success, with one outcome per row; every row was posted;
\* a failed row has success = false, a non-empty error and no statusCode.
C6_RowFailuresContained ==
  (pc = "done" /\ \E r \in DOMAIN transport : transport[r].posts > 0) =>
    /\ SubmitDone
    /\ DOMAIN result.data.results = 1..Len(csvRows)
    /\ \A r \in 1..Len(csvRows) : transport[r].posts >= 1
    /\ \A k \in DOMAIN result.data.results :
         ~result.data.results[k].success =>
           /\ result.data.results[k].error # <<>>
           /\ \A part \in 1..Len(result.data.results[k].error) :
                result.data.results[k].error[part] # ""
           /\ "statusCode" \notin DOMAIN result.data.results[k]

\* every row of the first batch failed and a row of a later batch succeeded
C6_Witness ==
  /\ SubmitDone
  /\ Len(csvRows) > params.maxConcurrentRequests
  /\ \A k \in 1..params.maxConcurrentRequests : ~result.data.results[k].success
  /\ \E k \in DOMAIN result.data.results : result.data.results[k].success

\* C7: a recorded outcome has success = true exactly when the HTTP exchange
\* of its row completed (headers and body) without transport error; it then
\* carries the status code the endpoint answered with, whatever that code
\* is, and the summary counts every such row as successful.
C7_SuccessIsTransportSuccess ==
  pc # "idle" =>
    /\ \A k \in DOMAIN results :
         /\ results[k].success <=> transport[k].exchange = "completed"
         /\ results[k].success => results[k].statusCode = transport[k].status
    /\ SubmitDone =>
         result.data.summary.successfulRequests =
           Cardinality({r \in DOMAIN transport :
                          transport[r].exchange = "completed"})

\* every row was answered with status 500 and the success rate is 100.0
C7_Witness ==
  /\ SubmitDone
  /\ Len(csvRows) >= 2
  /\ \A k \in DOMAIN result.data.results :
       /\ result.data.results[k].success
       /\ result.data.results[k].statusCode = 500
  /\ result.data.summary.successRate = 1000

\* some cell of the written CSV text starts a spreadsheet formula
HasFormulaCell(csv) == dangerousCells(RawLines(csv))

\* a top-level error names the formula check
RejectedAsFormula ==
  /\ ~result.success
  /\ \E part \in 1..Len(result.error) :
       result.error[part] = "CSV contains potentially dangerous formulas"

\* C8 (as claimed): a CSV text in which some cell begins with =, +, @ or - is
\* not rejected for it; the job goes on to validation or submission.
C8_FormulaCellsNotRejected ==
  (pc = "done" /\ HasFormulaCell(params.csvData)) => ~RejectedAsFormula

\* the written CSV text is blank
BlankCsv(csv) == Trim(csv) = <<>>

\* the written CSV text has fewer than two lines
FewerThanTwoLines(csv) == Len(RawLines(csv)) < 2

\* no data line of the written CSV text has a non-empty cell
NoSurvivingRow(csv) ==
  \A l \in 2..Len(RawLines(csv)) : ~SomeCellFilled(Split(RawLines(csv)[l], ","))

\* the CSV text passes validation and parsing and no data row is left
NoParsedRow(csv) == parseCsvData(csv).ok /\ parseCsvData(csv).rows = <<>>

\* C9: an input error (blank CSV text, fewer than two lines, no surviving
\* data row) ends the job with a single top-level error, without a results
\* list, and no HTTP request is ever issued.
C9_InputErrors ==
  (pc # "idle" /\ (BlankCsv(params.csvData) \/ FewerThanTwoLines(params.csvData)
                     \/ NoSurvivingRow(params.csvData)
                     \/ NoParsedRow(params.csvData))) =>
    /\ pc = "done"
    /\ DOMAIN result = {"success", "error"}
    /\ ~result.success
    /\ result.error # <<>>
    /\ results = <<>>
    /\ \A r \in DOMAIN transport : transport[r].posts = 0

\* a CSV text with a header and only empty data cells was refused
C9_Witness ==
  /\ pc = "done"
  /\ ~FewerThanTwoLines(params.csvData)
  /\ NoSurvivingRow(params.csvData)
  /\ result = Failure(<<"No valid data rows found in CSV">>)

\* the header line of the written CSV text names no column
NoHeaderName(csv) == ~SomeCellFilled(Split(RawLines(csv)[1], ","))

\* C10 (as claimed): a CSV text whose header line contains no header name
\* fails the job with a top-level error before any HTTP request, and no row
\* is built with an empty header key.
C10_HeaderRequired ==
  (pc # "idle" /\ NoHeaderName(params.csvData)) =>
    /\ pc = "done"
    /\ ~result.success
    /\ \A r \in DOMAIN transport : transport[r].posts = 0
    /\ \A k \in 1..Len(csvRows) : ~HasKey(csvRows[k], <<>>)

\* one name=value field as application/x-www-form-urlencoded writes it
EncodedField(name, value) == FormEncode(name) \o <<"=">> \o FormEncode(value)

\* the fields of a form-encoded text
FieldsOf(text) == {Split(text, "&")[k] : k \in 1..Len(Split(text, "&"))}

\* C11 (as claimed): the body of every submission POST contains the control
\* parameters elqFormName and elqSiteID and every column of the row as a
\* same-named form field.
C11_BodyHasControlParams ==
  \A r \in DOMAIN transport :
    transport[r].posts > 0 =>
      /\ EncodedField(ElqFormNameKey, params.elqFormName)
           \in FieldsOf(transport[r].body)
      /\ EncodedField(ElqSiteIDKey, params.siteId) \in FieldsOf(transport[r].body)
      /\ \A c \in 1..Len(csvRows[r]) :
           EncodedField(csvRows[r][c][1], csvRows[r][c][2])
             \in FieldsOf(transport[r].body)

\* C12 (as claimed): when an exception is raised while outcomes are being
\* assembled, after at least one outcome was recorded, the job is reported
\* as failed and the outcomes recorded so far are returned with the error.
C12_PartialResultsReturned ==
  (pc = "done" /\ ~result.success /\ results # <<>>) =>
    /\ "data" \in DOMAIN result
    /\ result.data.results = results

\* C13 (as claimed): for every non-empty outcome list with s successes out
\* of n rows, successRate is round(s / n * 1000) / 10: the percentage
\* rounded to one decimal (here in tenths of a percent).
C13_SuccessRateFormula ==
  (pc = "summarized" /\ ArrLength(results) > 0) =>
    result.summary.successRate =
      RoundDiv(1000 * CountSuccessful(results), ArrLength(results))

\* C14 (as claimed): calculateSummary applied to an empty outcome list fails
\* with an error instead of returning a summary.
C14_EmptyListFails ==
  (pc = "summarized" /\ ArrLength(results) = 0) =>
    /\ "error" \in DOMAIN result
    /\ "summary" \notin DOMAIN result

\* the outcome recorded for row number r is the timeout outcome
TimedOut(r) ==
  /\ r \in DOMAIN results
  /\ ~results[r].success
  /\ results[r].error = <<"Request timeout">>
  /\ "statusCode" \notin DOMAIN results[r]
  /\ tasks[r].timer = "fired"

\* C15: when the transport never resolves, every row whose POST is pending
\* eventually has its abort timer fired and gets the outcome success =
\* false, no statusCode, error 'Request timeout', recorded in the results
\* list when its batch completes.
C15_TimeoutOutcome ==
  \A r \in 1..MaxRows :
    (r \in DOMAIN tasks /\ tasks[r].st = "fetching") ~> TimedOut(r)

\* a run of several batches completed with every row timed out
C15_Witness ==
  /\ SubmitDone
  /\ Len(csvRows) > params.maxConcurrentRequests
  /\ \A r \in 1..Len(csvRows) : TimedOut(r)
  /\ result.data.summary.failedRequests = Len(csvRows)

\* an outcome, once written, stays as it is
OutcomesKept ==
  \A k \in DOMAIN results : k \in DOMAIN results' /\ results'[k] = results[k]

\* C16: in submit mode every parsed row is handled exactly once: never more
\* than one POST per row, an outcome only for a row that was posted, written
\* at index rowNumber - 1 and never changed afterwards, and at the end of
\* the run one POST and one outcome for every row.
C16_ExactlyOnce ==
  /\ [](\A r \in DOMAIN transport :
          /\ transport[r].posts <= 1
          /\ r \in DOMAIN results =>
               transport[r].posts = 1 /\ results[r].rowNumber = r)
  /\ [](DOMAIN results \subseteq DOMAIN transport)
  /\ [](SubmitDone =>
          \A r \in 1..Len(csvRows) :
            transport[r].posts = 1 /\ r \in DOMAIN result.data.results)
  /\ [][OutcomesKept]_vars

\* a completed run in which the first row failed, a later batch timed out,
\* and no row was posted again
C16_Witness ==
  /\ SubmitDone
  /\ Len(csvRows) >= 3
  /\ params.maxConcurrentRequests = 1
  /\ transport[1].exchange = "neterror"
  /\ transport[2].exchange = "aborted"
  /\ \A r \in 1..Len(csvRows) : transport[r].posts = 1

\* an option of the job lies outside the range the schema declares for it
OutOfRange(p) ==
  \/ p.requestTimeout < 1 \/ p.requestTimeout > 60
  \/ p.delayBetweenRequests < 0 \/ p.delayBetweenRequests > 5000
  \/ p.maxConcurrentRequests < 1 \/ p.maxConcurrentRequests > 20

\* the job is inside processBulkSubmissions
InBatchLoop == pc \in {"loop", "await", "delay"}

\* C17 (as claimed): a submit job with requestTimeout outside 1..60,
\* delayBetweenRequests outside 0..5000 or maxConcurrentRequests outside
\* 1..20 is rejected by parameter validation, so the batch loop never runs
\* with an out-of-range option.
C17_OutOfRangeRejected ==
  (pc # "idle" /\ OperationOrDefault(params.operation) = "submit"
     /\ OutOfRange(params)) =>
    /\ ~InBatchLoop
    /\ result = Failure(<<"Invalid parameters provided">>)

\* a submission URL was built or a POST was issued
UrlBuiltOrPosted ==
  \/ \E r \in DOMAIN transport : transport[r].posts > 0
  \/ /\ pc = "done"
     /\ result.success
     /\ "validation" \in DOMAIN result.data
     /\ result.data.validation.sampleUrls # <<>>

\* C18 (as claimed): whatever the operation field of the parameter object,
\* no submission URL is built and no POST is issued unless siteId matches
\* ^\d+$ and elqFormName is non-empty.
C18_IdsCheckedForEveryOperation ==
  (pc # "idle" /\ UrlBuiltOrPosted) =>
    /\ validateSiteId(params.siteId)
    /\ params.elqFormName # <<>>

\* the lines of the sanitized text from which parseCsvData builds the rows
IngestedLines(csv) == Split(Trim(validateCsvData(csv).sanitizedValue), "\n")

\* the number of double quotes of a line is even
BalancedQuotes(line) ==
  Cardinality({q \in 1..Len(line) : line[q] = "\""}) % 2 = 0

\* C19: CSV ingestion respects double-quote escaping end to end: for every
\* accepted job, each line of the text whose quotes are balanced yields as
\* many cells as its quote-aware reading has (a comma inside a double-quoted
\* cell is not a field separator), so that the cells meet the headers
\* position by position.
C19_QuotingRespected ==
  (pc # "idle" /\ csvRows # <<>>) =>
    \A l \in DOMAIN RawLines(params.csvData) \cap
              DOMAIN IngestedLines(params.csvData) :
      BalancedQuotes(RawLines(params.csvData)[l]) =>
        Len(parseCsvLine(IngestedLines(params.csvData)[l]))
          = Len(parseCsvLine(RawLines(params.csvData)[l]))

\* a job on the submit path has been started
SubmitJobRunning ==
  IF pc = "idle" THEN FALSE
  ELSE OperationOrDefault(params.operation) = "submit"

\* C20 (as claimed): every submit job that passes parameter validation
\* terminates, given that each row submission returns: the batch loop
\* reaches the end of the rows and the job ends completed or failed.
C20_Terminates == SubmitJobRunning ~> (pc = "done")

\* the processRow call of row number r has returned
Returned(r) == r \in DOMAIN tasks /\ tasks[r].st = "settled"

\* C21 (as claimed): the abort timer bounds the whole exchange: a row
\* submission that waits for the response headers or for the response body
\* always returns, also when the body never finishes.
C21_TimeoutBoundsExchange ==
  \A r \in 1..MaxRows :
    (r \in DOMAIN tasks /\ tasks[r].st \in {"fetching", "reading"})
      ~> Returned(r)

\* C22 (as claimed): once processRow has returned an outcome for a row,
\* whether the request succeeded or failed with a transport error, the
\* abort timer of that row is no longer armed.
C22_TimerClearedOnCompletion ==
  \A r \in DOMAIN tasks : Returned(r) => tasks[r].timer # "armed"

\* rows are left after the batches completed so far
RowsRemain == processedCount < Len(csvRows)

\* the orchestrator is suspended in the inter-batch pause
Pausing == pc = "delay"

\* what a step does about the pause: the step that completes a batch enters
\* the pause exactly when the delay is positive and rows remain, nothing
\* else enters it, and the pause ends at the head of the loop with a batch
\* to start, having moved no row submission
PauseStep ==
  /\ (pc = "await" /\ pc' # "await") =>
        /\ processedCount' = processedCount + Len(batch)
        /\ Pausing' <=> (params.delayBetweenRequests > 0 /\ RowsRemain')
        /\ ~Pausing' => pc' = "loop"
  /\ (~Pausing /\ Pausing') => pc = "await"
  /\ Pausing =>
        /\ \A r \in DOMAIN tasks : tasks'[r].st = tasks[r].st
        /\ transport' = transport /\ results' = results
        /\ pc' \in {"delay", "loop"}
        /\ pc' = "loop" => (i' < Len(csvRows) /\ i' = processedCount)

\* C23: the inter-batch pause happens exactly between consecutive batches:
\* with delayBetweenRequests > 0 the orchestrator suspends after every batch
\* but the last and resumes by starting the next batch; no row is in flight
\* during the pause, there is no pause after the last batch and none at all
\* when the delay is 0.
C23_PauseBetweenBatches ==
  /\ [][PauseStep]_vars
  /\ [](Pausing =>
          /\ params.delayBetweenRequests > 0
          /\ RowsRemain
          /\ \A r \in DOMAIN tasks : tasks[r].st \in {"idle", "settled"})
  /\ []((pc = "loop" /\ ~RowsRemain) => ~(i < Len(csvRows)))

\* the pause after the second of at least three batches
C23_Witness ==
  /\ Pausing
  /\ params.maxConcurrentRequests = 1
  /\ processedCount = 2
  /\ Len(csvRows) >= 3

\* the step issues the POST of row number r
Issued(r) ==
  /\ r \in DOMAIN transport
  /\ r \in DOMAIN transport'
  /\ transport'[r].posts > transport[r].posts

\* a row after the first of its batch is not issued in the step that issues
\* the row before it
DelayedWithinBatch ==
  \A r \in 2..MaxRows :
    (Issued(r) /\ params.delayBetweenRequests > 0 /\ r > i + 1) => ~Issued(r - 1)

\* C24 (as claimed): within a batch, the POST of every row after the first
\* is preceded by a delay step of delayBetweenRequests: it is never issued
\* together with the POST of the row before it.
C24_DelayWithinBatch == [][DelayedWithinBatch]_vars

\* ceil(n / m) for m > 0
CeilDiv(n, m) == (n + m - 1) \div m

\* C25 (as claimed): the progress sink is invoked once per completed batch,
\* ceil(N / maxConcurrentRequests) times for N rows, with the cumulative
\* number of processed rows, never while a row of the batch is in flight,
\* and the last invocation reports N of N (100%).
C25_ProgressOncePerBatch ==
  /\ (pc # "idle" /\ progressLog # <<>>) =>
        /\ progressLog[Len(progressLog)][1] = processedCount
        /\ \A r \in 1..processedCount : Returned(r)
  /\ SubmitDone =>
        /\ Len(progressLog)
             = CeilDiv(Len(csvRows), params.maxConcurrentRequests)
        /\ progressLog[Len(progressLog)] = <<Len(csvRows), Len(csvRows), 100>>

\* a CSV text of one column: it has no comma and no double quote
OneColumn(csv) == ~Includes(csv, ",") /\ ~Includes(csv, "\"")

\* the data lines of a one-column text, each trimmed and sanitized once
EscapedOnce(csv) ==
  {sanitizeHtml(Trim(RawLines(csv)[l])) : l \in 2..Len(RawLines(csv))}

\* C26 (as claimed): a cell value stored in a row is the trimmed cell text
\* with tags stripped and HTML-entity-escaped exactly once (a cell with '&'
\* is stored with a single '&amp;', a cell without markup unchanged); stated
\* for the rows of every accepted job over a one-column text.
C26_EscapedExactlyOnce ==
  (pc # "idle" /\ csvRows # <<>> /\ OneColumn(params.csvData)) =>
    \A k \in DOMAIN csvRows :
      /\ Len(csvRows[k]) = 1
      /\ csvRows[k][1][2] \in EscapedOnce(params.csvData)

\* execute is about to call calculateSummary(results)
AtSummary == pc = "loop" /\ ~(i < Len(csvRows))

\* C27: within a job the summary is never computed over an empty outcome
\* list: when execute reaches calculateSummary, results holds at least one
\* outcome, and a returned summary counts at least one row; a CSV text that
\* yields no row ends the job with 'No valid data rows found in CSV' before
\* any submission.
C27_SummaryNeverEmpty ==
  /\ AtSummary => ArrLength(results) >= 1
  /\ SubmitDone => result.data.summary.totalRows >= 1
  /\ (pc # "idle" /\ NoParsedRow(params.csvData)) =>
        /\ result = Failure(<<"No valid data rows found in CSV">>)
        /\ results = <<>>
        /\ \A r \in DOMAIN transport : transport[r].posts = 0

\* execute is about to compute the summary of a one-row job
C27_Witness ==
  /\ AtSummary
  /\ Len(csvRows) = 1
  /\ ArrLength(results) = 1

\* item numbers whose deletion has started and not yet finished
DeletionsInFlight == {k \in DOMAIN tasks : tasks[k].st = "deleting"}

\* C28 (as claimed): in the bulk deletion tool, at every moment the number
\* of deletions that have started and not yet finished is at most
\* maxConcurrentRequests, also when batchSize is larger.
C28_ConcurrencyBounded ==
  pc \in {"batches", "chunks", "deleted"} =>
    Cardinality(DeletionsInFlight) <= params.maxConcurrentRequests

\* the bulk export/import dependencies of an answer
ListedDependencies(answer) == SelectSeq(answer.dependencies, IsBulkDependency)

\* positions of the DELETE requests for the field in the request list
FieldAttempts == {k \in DOMAIN transport : transport[k].target = "field"}

\* a DELETE for dependency d was sent after the first field DELETE and
\* before the last one
Attempted(d) ==
  \E k \in DOMAIN transport :
    /\ transport[k].target = d.type /\ transport[k].id = d.id
    /\ 1 < k /\ k < Len(transport)

\* C29 (as claimed): when the DELETE of a contact field is refused with
\* status 412 listing bulk export/import dependencies, a DELETE is attempted
\* for every listed dependency and only then the field DELETE is retried,
\* exactly once; the field is reported as deleted only if one of its at
\* most two DELETE attempts succeeded.
C29_DependenciesFirst ==
  pc = "returned" =>
    /\ Cardinality(FieldAttempts) <= 2
    /\ result.success =>
          \E k \in FieldAttempts : transport[k].answer.status = 200
    /\ (transport[1].answer.status = 412
          /\ ListedDependencies(transport[1].answer) # <<>>) =>
          /\ Cardinality(FieldAttempts) = 2
          /\ transport[Len(transport)].target = "field"
          /\ \A d \in 1..Len(ListedDependencies(transport[1].answer)) :
                Attempted(ListedDependencies(transport[1].answer)[d])

\* executeTool calls that have not returned
RunningCalls == {c \in DOMAIN tasks : tasks[c] = "running"}

\* C30 (as claimed): in the useTool hook, under any interleaving of
\* executeTool calls, isExecuting is true whenever at least one call is
\* still running and false only when no call is running.
C30_ExecutingWhileRunning ==
  pc = "mounted" => (result.isExecuting <=> RunningCalls # {})

====
